---- MODULE Spec2Model ----
(***************************************************************************)
(* Model of the screenplay block editor: the Editor component              *)
(* (src/src/components/Editor.tsx) and the keyboard handling of its        *)
(* suggestion popup (src/src/components/Autocomplete.tsx).                 *)
(*                                                                         *)
(* A JavaScript string is modelled as a sequence of one-character strings, *)
(* so that toUpperCase, startsWith, includes, split, substring, trim and   *)
(* the prefix regular expression are computed, not assumed.                *)
(***************************************************************************)
EXTENDS Integers, Sequences, FiniteSets, TLC

\* ------------------------------------------------------------------------
\* Bounds of the model
\* ------------------------------------------------------------------------

\* Number of user events a behaviour of the model handles.
MaxSteps == 4

\* Number of distinct values generateId can return in the model.
MaxIds == 2

\* ------------------------------------------------------------------------
\* JavaScript string primitives over sequences of characters
\* ------------------------------------------------------------------------

\* null for a string-valued state (focusedId)
None == "none"

\* null | value for a record-valued state: the empty tuple, or the value in a
\* one-element tuple
Null == <<>>
Some(x) == <<x>>
ValueOf(opt) == opt[1]

LowerChars == <<"a","b","c","d","e","f","g","h","i","j","k","l","m",
                "n","o","p","q","r","s","t","u","v","w","x","y","z">>
UpperChars == <<"A","B","C","D","E","F","G","H","I","J","K","L","M",
                "N","O","P","Q","R","S","T","U","V","W","X","Y","Z">>

\* String.prototype.toUpperCase on one character
UpperChar(c) ==
    IF \E i \in 1..Len(LowerChars) : LowerChars[i] = c
    THEN UpperChars[CHOOSE i \in 1..Len(LowerChars) : LowerChars[i] = c]
    ELSE c

\* String.prototype.toUpperCase
ToUpperCase(s) == [i \in 1..Len(s) |-> UpperChar(s[i])]

\* The characters the regular expression class \s and trim() treat as blank
IsSpace(c) == c = " "

\* String.prototype.substring(from) / substring(from, to), 0-based offsets
SubstringFrom(s, from) ==
    IF from >= Len(s) THEN <<>> ELSE SubSeq(s, from + 1, Len(s))
Substring(s, from, to) ==
    IF to <= from THEN <<>>
    ELSE SubSeq(s, from + 1, IF to > Len(s) THEN Len(s) ELSE to)

\* s has p at 0-based offset i
MatchAt(s, p, i) ==
    /\ i >= 0
    /\ i + Len(p) <= Len(s)
    /\ SubSeq(s, i + 1, i + Len(p)) = p

\* String.prototype.startsWith / includes
StartsWith(s, p) == MatchAt(s, p, 0)
Includes(s, p) == \E i \in 0..Len(s) : MatchAt(s, p, i)

\* String.prototype.indexOf / lastIndexOf (-1 when absent)
IndexOf(s, p) ==
    IF Includes(s, p)
    THEN CHOOSE i \in 0..Len(s) :
            MatchAt(s, p, i) /\ \A j \in 0..(i - 1) : ~MatchAt(s, p, j)
    ELSE -1
LastIndexOf(s, p) ==
    IF Includes(s, p)
    THEN CHOOSE i \in 0..Len(s) :
            MatchAt(s, p, i) /\ \A j \in (i + 1)..Len(s) : ~MatchAt(s, p, j)
    ELSE -1

\* s.split(sep)[0]: the text before the first separator (all of s without one)
SplitFirst(s, sep) ==
    IF Includes(s, sep) THEN Substring(s, 0, IndexOf(s, sep)) ELSE s

\* s.split(sep)[1] || '': the text between the first and the second separator
SplitSecond(s, sep) ==
    IF ~Includes(s, sep) THEN <<>>
    ELSE LET rest == SubstringFrom(s, IndexOf(s, sep) + Len(sep))
         IN SplitFirst(rest, sep)

\* Number of leading blanks of s
RECURSIVE LeadingSpaces(_)
LeadingSpaces(s) ==
    IF s = <<>> \/ ~IsSpace(Head(s)) THEN 0 ELSE 1 + LeadingSpaces(Tail(s))

\* Number of trailing blanks of s
RECURSIVE TrailingSpaces(_)
TrailingSpaces(s) ==
    IF s = <<>> \/ ~IsSpace(s[Len(s)]) THEN 0
    ELSE 1 + TrailingSpaces(SubSeq(s, 1, Len(s) - 1))

\* String.prototype.trim
Trim(s) ==
    LET a == LeadingSpaces(s)
    IN IF a = Len(s) THEN <<>>
       ELSE SubSeq(s, a + 1, Len(s) - TrailingSpaces(s))

\* Set.prototype.add on an insertion-ordered set held as a sequence
SetAdd(arr, x) ==
    IF \E i \in 1..Len(arr) : arr[i] = x THEN arr ELSE Append(arr, x)

\* ------------------------------------------------------------------------
\* Block types and the fixed tables of the editor
\* ------------------------------------------------------------------------

BlockTypes ==
    {"scene_heading", "action", "character", "dialogue", "parenthetical",
     "transition"}

\* The string literals of handleInput and knownLocations
StrIntSp    == <<"I","N","T","."," ">>
StrExtSp    == <<"E","X","T","."," ">>
StrIntExtSp == <<"I","N","T",".","/","E","X","T","."," ">>
StrInt      == <<"I","N","T",".">>
StrExt      == <<"E","X","T",".">>
StrIntExt   == <<"I","N","T",".","/","E","X","T",".">>
StrDash     == <<"-">>
StrSpDashSp == <<" ","-"," ">>
StrDot      == <<".">>

\* const prefixes = ['INT. ', 'EXT. ', 'INT./EXT. ']
prefixes == <<StrIntSp, StrExtSp, StrIntExtSp>>

\* const times = ['DAY', 'NIGHT', 'LATER', 'CONTINUOUS', 'MOMENTS LATER']
times == << <<"D","A","Y">>,
           <<"N","I","G","H","T">>,
           <<"L","A","T","E","R">>,
           <<"C","O","N","T","I","N","U","O","U","S">>,
           <<"M","O","M","E","N","T","S"," ","L","A","T","E","R">> >>

\* The alternatives of /^(INT\.|EXT\.|INT\.\/EXT\.)\s*/i, in the order the
\* regular expression tries them
PrefixAlternatives == <<StrInt, StrExt, StrIntExt>>

\* Length of the match of /^(INT\.|EXT\.|INT\.\/EXT\.)\s*/i at the start of s,
\* or -1 when it does not match. The first alternative that matches is taken
\* (the trailing \s* matches the empty string, so the match never backtracks
\* into a later alternative), then every blank that follows.
PrefixMatchLen(s) ==
    LET u == ToUpperCase(s)
        hits == {i \in 1..Len(PrefixAlternatives) :
                    StartsWith(u, PrefixAlternatives[i])}
    IN IF hits = {} THEN -1
       ELSE LET first == CHOOSE i \in hits : \A j \in hits : i <= j
                n == Len(PrefixAlternatives[first])
            IN n + LeadingSpaces(SubstringFrom(s, n))

\* The location one scene heading contributes to knownLocations (<<>> = none):
\* content.split('-')[0], the prefix regular expression removed, trimmed,
\* upper-cased
LocationOf(content) ==
    LET part == SplitFirst(content, StrDash)
        m == PrefixMatchLen(part)
        stripped == IF m < 0 THEN part ELSE SubstringFrom(part, m)
    IN ToUpperCase(Trim(stripped))

\* knownLocations: the useMemo over blocks, an insertion-ordered set
RECURSIVE KnownLocationsFrom(_, _)
KnownLocationsFrom(bs, acc) ==
    IF bs = <<>> THEN acc
    ELSE LET b == Head(bs)
             loc == LocationOf(b.content)
         IN KnownLocationsFrom(Tail(bs),
               IF b.type = "scene_heading" /\ loc # <<>>
               THEN SetAdd(acc, loc) ELSE acc)

KnownLocations(bs) == KnownLocationsFrom(bs, <<>>)

\* Mutant of IsTriggerType: the type is not looked at
IsTriggerTypeAny(type) == TRUE

\* if (block.type === 'scene_heading'): the types whose content changes run
\* the trigger logic
IsTriggerType(type) == type = "scene_heading"

\* Mutant of PrefixStage: a text that holds " - " is left to the later stages
PrefixStageNoDash(upperText) ==
    /\ Len(upperText) < 5
    /\ ~Includes(upperText, StrDot)
    /\ ~Includes(upperText, StrSpDashSp)

\* upperText.length < 5 && !upperText.includes('.'): the first branch
PrefixStage(upperText) == Len(upperText) < 5 /\ ~Includes(upperText, StrDot)

\* Mutant of PrefixOptions: the test is turned round, upperText.startsWith(p)
PrefixOptionsTurned(upperText) ==
    SelectSeq(prefixes, LAMBDA p : StartsWith(upperText, p))

\* prefixes.filter(p => p.startsWith(upperText))
PrefixOptions(upperText) == SelectSeq(prefixes, LAMBDA p : StartsWith(p, upperText))

\* upperText.includes(' - '): the second branch
TimeStage(upperText) == Includes(upperText, StrSpDashSp)

\* parts[1] || '' of upperText.split(' - ')
TimePrefix(upperText) == SplitSecond(upperText, StrSpDashSp)

\* Mutant of TimeOptions: only a time that is typed in full is offered
TimeOptionsExact(timePrefix) == SelectSeq(times, LAMBDA t : t = timePrefix)

\* times.filter(t => t.startsWith(timePrefix))
TimeOptions(timePrefix) == SelectSeq(times, LAMBDA t : StartsWith(t, timePrefix))

\* (startsWith('INT. ') || startsWith('EXT. ') || startsWith('INT./EXT. '))
\* && !upperText.includes(' - '): the third branch
LocationStage(upperText) ==
    /\ \/ StartsWith(upperText, StrIntSp)
       \/ StartsWith(upperText, StrExtSp)
       \/ StartsWith(upperText, StrIntExtSp)
    /\ ~Includes(upperText, StrSpDashSp)

\* Mutant of HasLocPrefix: an empty remainder is searched for as well
HasLocPrefixAlways(locPrefix) == TRUE

\* if (locPrefix.length > 0)
HasLocPrefix(locPrefix) == Len(locPrefix) > 0

\* knownLocations.filter(loc => loc.startsWith(locPrefix) && loc !== locPrefix)
LocationOptions(known, locPrefix) ==
    SelectSeq(known, LAMBDA loc : StartsWith(loc, locPrefix) /\ loc # locPrefix)

\* The autocomplete trigger logic of handleInput for a scene heading whose new
\* text is `text`, with the known locations of the closure: matchedOptions,
\* matchStart and matchEnd
MatchedOptions(text, known) ==
    LET upperText == ToUpperCase(text)
        matchEnd == Len(text)
        none == [options |-> <<>>, start |-> 0, end |-> matchEnd]
    IN IF PrefixStage(upperText)
       THEN [options |-> PrefixOptions(upperText), start |-> 0, end |-> matchEnd]
       ELSE IF TimeStage(upperText)
       THEN [options |-> TimeOptions(TimePrefix(upperText)),
             start |-> LastIndexOf(upperText, StrSpDashSp) + 3,
             end |-> matchEnd]
       ELSE IF LocationStage(upperText)
       THEN LET m == PrefixMatchLen(upperText)
                locPrefix == SubstringFrom(upperText, m)
            IN IF m >= 0 /\ HasLocPrefix(locPrefix)
               THEN [options |-> LocationOptions(known, locPrefix),
                     start |-> m, end |-> matchEnd]
               ELSE none
       ELSE none

\* ------------------------------------------------------------------------
\* Anchor geometry (screen rectangles in whole pixels)
\* ------------------------------------------------------------------------

\* A DOMRect as the code reads it
Rect(left, top, width, height) ==
    [x |-> left, y |-> top, top |-> top, bottom |-> top + height,
     left |-> left, right |-> left + width, width |-> width, height |-> height]

\* toAnchorRect: a field-by-field copy of a DOMRect
toAnchorRect(rect) ==
    [x |-> rect.x, y |-> rect.y, top |-> rect.top, bottom |-> rect.bottom,
     left |-> rect.left, right |-> rect.right, width |-> rect.width,
     height |-> rect.height]

\* Mutant of LineHeightOf: no fallback for a line height that parses to 0
LineHeightOfParsed(cssLineHeight) == cssLineHeight

\* Number.parseFloat(computed.lineHeight || '0') || 22; cssLineHeight is 0
\* for a value that parses to NaN or to 0 (such as 'normal')
DefaultLineHeight == 22
LineHeightOf(cssLineHeight) ==
    IF cssLineHeight = 0 THEN DefaultLineHeight ELSE cssLineHeight

\* getLineAnchorRect: a thin virtual caret at the top-left of the block
getLineAnchorRect(blockRect, cssLineHeight) ==
    LET lineHeight == LineHeightOf(cssLineHeight)
    IN [x |-> blockRect.left, y |-> blockRect.top, top |-> blockRect.top,
        bottom |-> blockRect.top + lineHeight, left |-> blockRect.left,
        right |-> blockRect.left + 1, width |-> 1, height |-> lineHeight]

\* getAnchorRect. sel is [hasRange, inside, caret, collapsed, startOffset,
\* probe]: whether window.getSelection() has a range, whether the range starts
\* inside the element, the range's rectangle, whether it is collapsed, its
\* start offset, and the rectangle of the character before the caret.
getAnchorRect(blockRect, cssLineHeight, sel) ==
    LET lineRect == getLineAnchorRect(blockRect, cssLineHeight)
    IN IF ~sel.hasRange THEN lineRect
       ELSE IF ~sel.inside THEN lineRect
       ELSE
         LET caretRect ==
                IF /\ sel.caret.width = 0 /\ sel.caret.height = 0
                   /\ sel.collapsed /\ sel.startOffset > 0
                   /\ (sel.probe.width # 0 \/ sel.probe.height # 0)
                THEN sel.probe ELSE sel.caret
             isZeroRect ==
                /\ caretRect.left = 0 /\ caretRect.top = 0
                /\ caretRect.width = 0 /\ caretRect.height = 0
             isNearActiveBlock ==
                /\ caretRect.left >= lineRect.left - 8
                /\ caretRect.left <= lineRect.left + blockRect.width + 8
                /\ caretRect.top >= lineRect.top - 40
                /\ caretRect.top <= lineRect.bottom + 40
         IN IF /\ ~isZeroRect /\ isNearActiveBlock
               /\ (caretRect.width # 0 \/ caretRect.height # 0)
            THEN toAnchorRect(caretRect)
            ELSE lineRect

\* The layout effect of Autocomplete for an open popup with an anchor: the
\* position it hands to setMenuPos. page.menu is the size of the popup's
\* element (Null when menuRef.current is not set), page.innerWidth and
\* page.innerHeight are the window's.
MenuPos(anchorRect, optionCount, page) ==
    LET viewportPadding == 10
        estimated == optionCount * 40 + 12
        estimatedWidth ==
            IF page.menu = Null THEN 260 ELSE ValueOf(page.menu).offsetWidth
        estimatedHeight ==
            IF page.menu = Null
            THEN (IF estimated < 240 THEN estimated ELSE 240)
            ELSE ValueOf(page.menu).offsetHeight
        left0 == anchorRect.left
        top0 == anchorRect.bottom + 8
        left1 == IF left0 + estimatedWidth > page.innerWidth - viewportPadding
                 THEN page.innerWidth - estimatedWidth - viewportPadding
                 ELSE left0
        top1 == IF top0 + estimatedHeight > page.innerHeight - viewportPadding
                THEN anchorRect.top - estimatedHeight - 8
                ELSE top0
    IN [left |-> IF left1 < viewportPadding THEN viewportPadding ELSE left1,
        top |-> IF top1 < viewportPadding THEN viewportPadding ELSE top1]

\* ------------------------------------------------------------------------
\* The document and the array operations of the handlers
\* ------------------------------------------------------------------------

\* generateId: Math.random().toString(36).substr(2, 9); nothing checks the
\* value against the ids in use, so any id of the id space can come out
Ids == {ToString(i) : i \in 1..MaxIds}
generateId == Ids

\* Block: { id, type, content }
Block(id, type, content) == [id |-> id, type |-> type, content |-> content]

\* The block the handlers call blocks[index] (index counts from 0)
BlockAt(bs, index) == bs[index + 1]

\* Mutant of InsertAfter: newBlocks.splice(index, 0, newBlock)
InsertBefore(bs, index, newBlock) ==
    SubSeq(bs, 1, index) \o <<newBlock>> \o SubSeq(bs, index + 1, Len(bs))

\* newBlocks.splice(index + 1, 0, newBlock)
InsertAfter(bs, index, newBlock) ==
    SubSeq(bs, 1, index + 1) \o <<newBlock>> \o SubSeq(bs, index + 2, Len(bs))

\* Mutant of RemoveAt: newBlocks.splice(index - 1, 2)
RemoveAtWide(bs, index) ==
    SubSeq(bs, 1, index - 1) \o SubSeq(bs, index + 2, Len(bs))

\* Mutant of RemoveAt: newBlocks.splice(index - 1, 1)
RemoveAtPrevious(bs, index) ==
    SubSeq(bs, 1, index - 1) \o SubSeq(bs, index + 1, Len(bs))

\* newBlocks.splice(index, 1)
RemoveAt(bs, index) ==
    SubSeq(bs, 1, index) \o SubSeq(bs, index + 2, Len(bs))

\* Mutant of SetType: the block is rebuilt without its content
SetTypeRebuild(bs, index, newType) ==
    [bs EXCEPT ![index + 1] = Block(@.id, newType, <<>>)]

\* newBlocks[index].type = newType
SetType(bs, index, newType) ==
    [bs EXCEPT ![index + 1].type = newType]

\* newBlocks[index].content = text
SetContent(bs, index, text) ==
    [bs EXCEPT ![index + 1].content = text]

\* blocks.findIndex(b => b.id === id), -1 when no block has the id
FindIndex(bs, id) ==
    IF \E k \in 1..Len(bs) : bs[k].id = id
    THEN (CHOOSE k \in 1..Len(bs) :
            bs[k].id = id /\ \A j \in 1..(k - 1) : bs[j].id # id) - 1
    ELSE -1

\* Mutant of EnterNewType: the dialogue branch keeps the type
EnterNewTypeKeepsDialogue(t) ==
    IF t = "scene_heading" THEN "action"
    ELSE IF t = "character" THEN "dialogue"
    ELSE IF t = "dialogue" THEN "dialogue"
    ELSE IF t = "parenthetical" THEN "dialogue"
    ELSE IF t = "action" THEN "action"
    ELSE "action"

\* The type of the block Enter inserts after a block of type t
EnterNewType(t) ==
    IF t = "scene_heading" THEN "action"
    ELSE IF t = "character" THEN "dialogue"
    ELSE IF t = "dialogue" THEN "character"
    ELSE IF t = "parenthetical" THEN "dialogue"
    ELSE IF t = "action" THEN "action"
    ELSE "action"

\* Mutant of TabNewType: the ring in the order of the BlockType declaration
TabNewTypeDeclOrder(t) ==
    LET declared == <<"scene_heading", "action", "character", "dialogue",
                      "parenthetical", "transition">>
        currentIndex == (CHOOSE k \in 1..Len(declared) : declared[k] = t) - 1
    IN declared[((currentIndex + 1) % Len(declared)) + 1]

\* const cycle: BlockType[] of the Tab branch
cycle ==
    <<"scene_heading", "action", "character", "parenthetical", "dialogue",
      "transition">>

\* cycle[(cycle.indexOf(t) + 1) % cycle.length]
TabNewType(t) ==
    LET currentIndex == (CHOOSE k \in 1..Len(cycle) : cycle[k] = t) - 1
    IN cycle[((currentIndex + 1) % Len(cycle)) + 1]

\* Mutant of BackspaceRemoves: the text is not looked at
BackspaceRemovesAnyText(text, index) == index > 0

\* The Backspace branch removes the block: text === '' and index > 0
BackspaceRemoves(text, index) == text = <<>> /\ index > 0

\* ------------------------------------------------------------------------
\* Inputs of the model
\* ------------------------------------------------------------------------

\* Texts a content change leaves in a block
TextEmpty   == <<>>
TextIntC    == <<"I","N","T","."," ","C">>
TextAction  == <<"H","e"," ","w","a","l","k","s"," ","i","n",".">>
TextHeading == <<"I","N","T","."," ","C","O","F","F","E","E"," ","S","H","O","P"," ","-"," ","D","A","Y">>
TextWriter  == <<"A"," ","l","o","n","e","l","y"," ","w","r","i","t","e","r"," ","s","t","a","r","e","s"," ","a","t"," ","a","n"," ","e","m","p","t","y"," ","p","a","g","e",".">>

InputTexts == {TextEmpty, TextIntC, TextAction}

\* The documents the editor is mounted with: the two blocks of App, and the
\* documents whose only block is empty, of each type
InitialDocuments ==
    {<<Block(a, "scene_heading", TextHeading), Block(b, "action", TextWriter)>> :
        a \in generateId, b \in generateId}
    \cup {<<Block(a, t, TextEmpty)>> : a \in generateId, t \in BlockTypes}

\* What the page reports on a content change: to getAnchorRect the block's
\* rectangle, its computed line height and the selection; to the popup's
\* layout effect the size of the window and of the popup's element (menu,
\* Null while the element is not on the page)
BlockRect == Rect(96, 136, 624, 22)
DomCaretAtText ==
    [blockRect |-> BlockRect, cssLineHeight |-> 0,
     sel |-> [hasRange |-> TRUE, inside |-> TRUE, caret |-> Rect(156, 138, 0, 18),
              collapsed |-> TRUE, startOffset |-> 6, probe |-> Rect(146, 138, 10, 18)],
     innerWidth |-> 800, innerHeight |-> 600, menu |-> Null]
DomNoSelection ==
    [blockRect |-> BlockRect, cssLineHeight |-> 0,
     sel |-> [hasRange |-> FALSE, inside |-> FALSE, caret |-> Rect(0, 0, 0, 0),
              collapsed |-> TRUE, startOffset |-> 0, probe |-> Rect(0, 0, 0, 0)],
     innerWidth |-> 800, innerHeight |-> 600, menu |-> Null]
MenuSize(width, height) == [offsetWidth |-> width, offsetHeight |-> height]
WithMenu(dom, size) == [dom EXCEPT !.menu = Some(size)]
DomReadings ==
    {DomCaretAtText, DomNoSelection,
     WithMenu(DomCaretAtText, MenuSize(248, 90)),
     WithMenu(DomNoSelection, MenuSize(248, 90))}

\* ------------------------------------------------------------------------
\* State
\* ------------------------------------------------------------------------

VARIABLES
    blocks,           \* the document: App's useState<Block[]>
    focusedId,        \* Editor: useState<string | null>(null)
    shouldFocus,      \* Editor: the pending-focus flag
    acShow,           \* Editor: the popup is open
    acOptions,        \* Editor: the published options
    acAnchorRect,     \* Editor: the published anchor (Null = null)
    acMatchRange,     \* Editor: the match range (Null = null)
    highlightedIndex, \* Autocomplete: the highlighted option (-1 = none)
    menuPos,          \* Autocomplete: the popup's position (Null = null)
    domFocus,         \* index of the block element holding input focus (-1 = none)
    ev,               \* the last event handled, and what its handler read
    steps,            \* the number of user events handled so far
    budget            \* the number of user events the behaviour handles

vars ==
    <<blocks, focusedId, shouldFocus, acShow, acOptions, acAnchorRect,
      acMatchRange, highlightedIndex, menuPos, domFocus, ev, steps, budget>>

acVars == <<acShow, acOptions, acAnchorRect, acMatchRange, menuPos>>

\* The record of an event: its kind and the index it was delivered at; for a
\* Tab press also the number of consecutive Tab presses on that block that it
\* ends (run) and the block's type before the first of them (origin); for a
\* content change also the knownLocations its handler read (known) and, when
\* it opened the popup, what it read from the page (dom). opener is the id of
\* the block whose content change published the options and the match range
\* that are in the state (None before the first).
FirstEvent(kind, index) ==
    [kind |-> kind, index |-> index, run |-> 0, origin |-> None, known |-> <<>>,
     dom |-> Null, opener |-> None]
Event(kind, index) == [FirstEvent(kind, index) EXCEPT !.opener = ev.opener]
TabEvent(last, index, type) ==
    IF last.kind = "Tab" /\ last.index = index
    THEN [Event("Tab", index) EXCEPT !.run = last.run + 1, !.origin = last.origin]
    ELSE [Event("Tab", index) EXCEPT !.run = 1, !.origin = type]
InputEvent(index, known) == [Event("Input", index) EXCEPT !.known = known]
OpeningEvent(index, known, dom, id) ==
    [InputEvent(index, known) EXCEPT !.dom = Some(dom), !.opener = id]

Init ==
    /\ blocks \in InitialDocuments
    /\ focusedId = None
    /\ shouldFocus = FALSE
    /\ acShow = FALSE
    /\ acOptions = <<>>
    /\ acAnchorRect = Null
    /\ acMatchRange = Null
    /\ highlightedIndex = -1
    /\ menuPos = Null
    /\ domFocus = -1
    /\ ev = FirstEvent("mount", -1)
    /\ steps = 0
    /\ budget = MaxSteps

\* The focus-transfer effect has work to do: focusedId && shouldFocus &&
\* blockRefs.current[focusedId]
FocusEffectReady ==
    /\ focusedId # None
    /\ shouldFocus
    /\ FindIndex(blocks, focusedId) >= 0

\* The popup's window keydown listener is installed: isOpen && options.length
PopupListening == acShow /\ Len(acOptions) > 0

\* An event of the user is handled once the effects of the last one have run
UserEvent ==
    /\ ~FocusEffectReady
    /\ steps < budget
    /\ steps' = steps + 1
    /\ UNCHANGED budget

\* A key or input event goes to the block element that holds input focus
KeyTarget(index) == UserEvent /\ domFocus >= 0 /\ index = domFocus

\* ------------------------------------------------------------------------
\* Editor: handleKeyDown
\* ------------------------------------------------------------------------

\* Mutant of HandleEnter: the key reaches the handler while the popup is open
\* and the handler does not return early
HandleEnterIgnoringPopup(index, id) ==
    /\ KeyTarget(index)
    /\ ev' = Event("Enter", index)
    /\ LET block == BlockAt(blocks, index)
           newBlock == Block(id, EnterNewType(block.type), <<>>)
       IN /\ blocks' = InsertAfter(blocks, index, newBlock)
          /\ focusedId' = newBlock.id
          /\ shouldFocus' = TRUE
    /\ UNCHANGED <<acVars, highlightedIndex, domFocus>>

\* The Enter branch of handleKeyDown on the block at `index`; id is the value
\* generateId returns. The popup's listener, when installed, stops the key
\* before it reaches this handler.
HandleEnter(index, id) ==
    /\ KeyTarget(index)
    /\ ~PopupListening
    /\ ev' = Event("Enter", index)
    /\ IF acShow
       THEN UNCHANGED <<blocks, focusedId, shouldFocus>>
       ELSE LET block == BlockAt(blocks, index)
                newBlock == Block(id, EnterNewType(block.type), <<>>)
            IN /\ blocks' = InsertAfter(blocks, index, newBlock)
               /\ focusedId' = newBlock.id
               /\ shouldFocus' = TRUE
    /\ UNCHANGED <<acVars, highlightedIndex, domFocus>>

\* The Tab branch of handleKeyDown on the block at `index`
HandleTab(index) ==
    /\ KeyTarget(index)
    /\ ev' = TabEvent(ev, index, BlockAt(blocks, index).type)
    /\ blocks' = SetType(blocks, index, TabNewType(BlockAt(blocks, index).type))
    /\ UNCHANGED <<focusedId, shouldFocus, acVars, highlightedIndex, domFocus>>

\* The Backspace branch of handleKeyDown on the block at `index`. The text is
\* the element's textContent, which the EditorBlock effect keeps equal to the
\* block's content. A removed block's element leaves the page, and the input
\* focus with it. A key that is not intercepted is left to the browser, whose
\* edit arrives as a content change (HandleInput).
HandleBackspace(index) ==
    /\ KeyTarget(index)
    /\ LET text == BlockAt(blocks, index).content
       IN IF BackspaceRemoves(text, index)
          THEN /\ ev' = Event("BackspaceRemove", index)
               /\ blocks' = RemoveAt(blocks, index)
               /\ focusedId' = BlockAt(blocks, index - 1).id
               /\ shouldFocus' = TRUE
               /\ domFocus' = -1
          ELSE /\ ev' = Event("BackspaceDefault", index)
               /\ UNCHANGED <<blocks, focusedId, shouldFocus, domFocus>>
    /\ UNCHANGED <<acVars, highlightedIndex>>

\* ------------------------------------------------------------------------
\* Editor: handleInput
\* ------------------------------------------------------------------------

\* Mutant of HandleInput: the match range is not published
HandleInputKeepsRange(index, text, dom) ==
    /\ KeyTarget(index)
    /\ text # BlockAt(blocks, index).content
    /\ (dom.menu # Null) <=> (menuPos # Null)
    /\ LET knownLocations == KnownLocations(blocks)
           newBlocks == SetContent(blocks, index, text)
           block == BlockAt(newBlocks, index)
           m == MatchedOptions(text, knownLocations)
           anchorRect == getAnchorRect(dom.blockRect, dom.cssLineHeight, dom.sel)
       IN /\ blocks' = newBlocks
          /\ IF IsTriggerType(block.type) /\ Len(m.options) > 0
             THEN /\ ev' = OpeningEvent(index, knownLocations, dom, block.id)
                  /\ acAnchorRect' = Some(anchorRect)
                  /\ acOptions' = m.options
                  /\ acMatchRange' = acMatchRange
                  /\ acShow' = TRUE
                  /\ menuPos' = Some(MenuPos(anchorRect, Len(m.options), dom))
             ELSE /\ ev' = InputEvent(index, knownLocations)
                  /\ acShow' = FALSE
                  /\ acAnchorRect' = Null
                  /\ menuPos' = Null
                  /\ UNCHANGED <<acOptions, acMatchRange>>
    /\ UNCHANGED <<focusedId, shouldFocus, highlightedIndex, domFocus>>

\* Mutant of HandleInput: the popup opens on every content change of a
\* scene heading, with or without options
HandleInputOpensEmpty(index, text, dom) ==
    /\ KeyTarget(index)
    /\ text # BlockAt(blocks, index).content
    /\ (dom.menu # Null) <=> (menuPos # Null)
    /\ LET knownLocations == KnownLocations(blocks)
           newBlocks == SetContent(blocks, index, text)
           block == BlockAt(newBlocks, index)
           m == MatchedOptions(text, knownLocations)
           anchorRect == getAnchorRect(dom.blockRect, dom.cssLineHeight, dom.sel)
       IN /\ blocks' = newBlocks
          /\ IF IsTriggerType(block.type)
             THEN /\ ev' = OpeningEvent(index, knownLocations, dom, block.id)
                  /\ acAnchorRect' = Some(anchorRect)
                  /\ acOptions' = m.options
                  /\ acMatchRange' = Some([start |-> m.start, end |-> m.end])
                  /\ acShow' = TRUE
                  /\ menuPos' = Some(MenuPos(anchorRect, Len(m.options), dom))
             ELSE /\ ev' = InputEvent(index, knownLocations)
                  /\ acShow' = FALSE
                  /\ acAnchorRect' = Null
                  /\ menuPos' = Null
                  /\ UNCHANGED <<acOptions, acMatchRange>>
    /\ UNCHANGED <<focusedId, shouldFocus, highlightedIndex, domFocus>>

\* handleInput(text, index, editableEl): the content change of the block at
\* `index` to `text`; dom is what the page reports to getAnchorRect and to the
\* layout effect of the popup, which runs in the same pass. The popup's
\* element is on the page exactly while a position is set. The known
\* locations are those of the render the handler was created in, computed
\* from the document before this change.
HandleInput(index, text, dom) ==
    /\ KeyTarget(index)
    /\ text # BlockAt(blocks, index).content
    /\ (dom.menu # Null) <=> (menuPos # Null)
    /\ LET knownLocations == KnownLocations(blocks)
           newBlocks == SetContent(blocks, index, text)
           block == BlockAt(newBlocks, index)
           m == MatchedOptions(text, knownLocations)
           anchorRect == getAnchorRect(dom.blockRect, dom.cssLineHeight, dom.sel)
       IN /\ blocks' = newBlocks
          /\ IF IsTriggerType(block.type) /\ Len(m.options) > 0
             THEN /\ ev' = OpeningEvent(index, knownLocations, dom, block.id)
                  /\ acAnchorRect' = Some(anchorRect)
                  /\ acOptions' = m.options
                  /\ acMatchRange' = Some([start |-> m.start, end |-> m.end])
                  /\ acShow' = TRUE
                  /\ menuPos' = Some(MenuPos(anchorRect, Len(m.options), dom))
             ELSE /\ ev' = InputEvent(index, knownLocations)
                  /\ acShow' = FALSE
                  /\ acAnchorRect' = Null
                  /\ menuPos' = Null
                  /\ UNCHANGED <<acOptions, acMatchRange>>
    /\ UNCHANGED <<focusedId, shouldFocus, highlightedIndex, domFocus>>

\* ------------------------------------------------------------------------
\* Editor: handleAutocompleteSelect, onClose, onFocus, the focus effect
\* ------------------------------------------------------------------------

\* handleAutocompleteSelect goes past its two early returns
SelectApplies ==
    /\ focusedId # None
    /\ acMatchRange # Null
    /\ FindIndex(blocks, focusedId) >= 0

\* Mutant of SelectedText: the option is put in front of the text after the span
SelectedTextInsert(content, range, value) ==
    value \o SubstringFrom(content, range.end)

\* block.content.substring(0, acMatchRange.start) + value
SelectedText(content, range, value) == Substring(content, 0, range.start) \o value

\* Mutant of handleAutocompleteSelect: the popup is closed and the focus is
\* requested before the early returns
handleAutocompleteSelectEager(value) ==
    IF SelectApplies
    THEN LET index == FindIndex(blocks, focusedId)
             block == BlockAt(blocks, index)
             newText == SelectedText(block.content, ValueOf(acMatchRange), value)
         IN /\ blocks' = SetContent(blocks, index, newText)
            /\ acShow' = FALSE
            /\ acAnchorRect' = Null
            /\ shouldFocus' = TRUE
    ELSE /\ acShow' = FALSE
         /\ acAnchorRect' = Null
         /\ shouldFocus' = TRUE
         /\ UNCHANGED blocks

\* handleAutocompleteSelect(value)
handleAutocompleteSelect(value) ==
    IF SelectApplies
    THEN LET index == FindIndex(blocks, focusedId)
             block == BlockAt(blocks, index)
             newText == SelectedText(block.content, ValueOf(acMatchRange), value)
         IN /\ blocks' = SetContent(blocks, index, newText)
            /\ acShow' = FALSE
            /\ acAnchorRect' = Null
            /\ shouldFocus' = TRUE
    ELSE UNCHANGED <<blocks, acShow, acAnchorRect, shouldFocus>>

\* onFocus={setFocusedId}: the user moves the input focus to the block at index
HandleFocus(index) ==
    /\ UserEvent
    /\ index \in 0..(Len(blocks) - 1)
    /\ index # domFocus
    /\ ev' = Event("Focus", index)
    /\ domFocus' = index
    /\ focusedId' = BlockAt(blocks, index).id
    /\ UNCHANGED <<blocks, shouldFocus, acVars, highlightedIndex>>

\* Mutant of FocusTransfer: the focus effect shows the popup again when
\* options and an anchor are left from an earlier content change
FocusTransferReopens(index) ==
    /\ FocusEffectReady
    /\ index \in 0..(Len(blocks) - 1)
    /\ BlockAt(blocks, index).id = focusedId
    /\ ev' = Event("FocusTransfer", index)
    /\ UNCHANGED <<steps, budget>>
    /\ domFocus' = index
    /\ shouldFocus' = FALSE
    /\ acShow' = (Len(acOptions) > 0 /\ acAnchorRect # Null)
    /\ UNCHANGED <<blocks, focusedId, acOptions, acAnchorRect, acMatchRange,
                   menuPos, highlightedIndex>>

\* The useEffect on [focusedId, shouldFocus]: focus the element registered
\* under focusedId, put the caret at its end, and clear the flag. The focus
\* event of the element sets focusedId to the id it is registered under.
\* With several blocks of one id the element registered under it is any of
\* theirs.
FocusTransfer(index) ==
    /\ FocusEffectReady
    /\ index \in 0..(Len(blocks) - 1)
    /\ BlockAt(blocks, index).id = focusedId
    /\ ev' = Event("FocusTransfer", index)
    /\ UNCHANGED <<steps, budget>>
    /\ domFocus' = index
    /\ shouldFocus' = FALSE
    /\ UNCHANGED <<blocks, focusedId, acVars, highlightedIndex>>

\* ------------------------------------------------------------------------
\* Autocomplete: the window keydown listener and the item click
\* ------------------------------------------------------------------------

\* The layout effect of Autocomplete after an event that publishes no new
\* options and no new anchor: the position is dropped when the popup is
\* closed, has no options or has no anchor, and is kept otherwise
LayoutKept ==
    menuPos' = IF acShow' /\ Len(acOptions') > 0 /\ acAnchorRect' # Null
               THEN menuPos ELSE Null

\* ArrowDown: highlightedIndex < options.length - 1 ? highlightedIndex + 1 : 0
ArrowDownIndex(h, n) == IF h < n - 1 THEN h + 1 ELSE 0

\* ArrowUp: highlightedIndex > 0 ? highlightedIndex - 1 : options.length - 1
ArrowUpIndex(h, n) == IF h > 0 THEN h - 1 ELSE n - 1

PopupArrowDown ==
    /\ UserEvent
    /\ PopupListening
    /\ ev' = Event("PopupArrowDown", -1)
    /\ highlightedIndex' = ArrowDownIndex(highlightedIndex, Len(acOptions))
    /\ UNCHANGED <<blocks, focusedId, shouldFocus, acVars, domFocus>>

PopupArrowUp ==
    /\ UserEvent
    /\ PopupListening
    /\ ev' = Event("PopupArrowUp", -1)
    /\ highlightedIndex' = ArrowUpIndex(highlightedIndex, Len(acOptions))
    /\ UNCHANGED <<blocks, focusedId, shouldFocus, acVars, domFocus>>

\* Enter while the listener is installed: the key is consumed, and the
\* highlighted option, if there is one, is selected
PopupEnter ==
    /\ UserEvent
    /\ PopupListening
    /\ ev' = Event("PopupEnter", -1)
    /\ IF highlightedIndex >= 0 /\ highlightedIndex < Len(acOptions)
       THEN handleAutocompleteSelect(acOptions[highlightedIndex + 1])
       ELSE UNCHANGED <<blocks, acShow, acAnchorRect, shouldFocus>>
    /\ UNCHANGED <<focusedId, acOptions, acMatchRange, highlightedIndex, domFocus>>
    /\ LayoutKept

\* Mutant of PopupEscape: Escape drops the anchor and leaves the popup open
PopupEscapeClearsAnchor ==
    /\ UserEvent
    /\ PopupListening
    /\ ev' = Event("PopupEscape", -1)
    /\ acAnchorRect' = Null
    /\ UNCHANGED <<blocks, focusedId, shouldFocus, acShow, acOptions,
                   acMatchRange, highlightedIndex, domFocus>>
    /\ LayoutKept

\* Escape while the listener is installed: onClose, which is setAcShow(false)
PopupEscape ==
    /\ UserEvent
    /\ PopupListening
    /\ ev' = Event("PopupEscape", -1)
    /\ acShow' = FALSE
    /\ UNCHANGED <<blocks, focusedId, shouldFocus, acOptions, acAnchorRect,
                   acMatchRange, highlightedIndex, domFocus>>
    /\ LayoutKept

\* A click on the option at position k of the rendered popup:
\* onSelectedItemChange calls onSelect, then the stateReducer closes the
\* combobox (onIsOpenChange calls onClose) and drops the highlight
PopupItemClick(k) ==
    /\ UserEvent
    /\ PopupListening
    /\ acAnchorRect # Null
    /\ k \in 0..(Len(acOptions) - 1)
    /\ ev' = Event("PopupItemClick", k)
    /\ IF SelectApplies
       THEN handleAutocompleteSelect(acOptions[k + 1])
       ELSE /\ acShow' = FALSE
            /\ UNCHANGED <<blocks, acAnchorRect, shouldFocus>>
    /\ highlightedIndex' = -1
    /\ UNCHANGED <<focusedId, acOptions, acMatchRange, domFocus>>
    /\ LayoutKept

\* ------------------------------------------------------------------------
\* Specification
\* ------------------------------------------------------------------------

Next ==
    \/ \E index \in 0..(Len(blocks) - 1), id \in generateId : HandleEnter(index, id)
    \/ \E index \in 0..(Len(blocks) - 1) : HandleTab(index)
    \/ \E index \in 0..(Len(blocks) - 1) : HandleBackspace(index)
    \/ \E index \in 0..(Len(blocks) - 1), text \in InputTexts, dom \in DomReadings :
          HandleInput(index, text, dom)
    \/ \E index \in 0..(Len(blocks) - 1) : HandleFocus(index)
    \/ \E index \in 0..(Len(blocks) - 1) : FocusTransfer(index)
    \/ PopupArrowDown
    \/ PopupArrowUp
    \/ PopupEnter
    \/ PopupEscape
    \/ \E k \in 0..(Len(acOptions) - 1) : PopupItemClick(k)

Spec == Init /\ [][Next]_vars

\* The editor with its effects run: React runs the focus effect after every
\* commit in which focusedId or shouldFocus changed
FocusPass == \E index \in 0..(Len(blocks) - 1) : FocusTransfer(index)

SpecLive == Spec /\ WF_vars(FocusPass)

\* Consecutive Tab presses on one focused block, twice round the ring
InitTab ==
    /\ blocks \in InitialDocuments
    /\ domFocus \in 0..(Len(blocks) - 1)
    /\ focusedId = BlockAt(blocks, domFocus).id
    /\ shouldFocus = FALSE
    /\ acShow = FALSE
    /\ acOptions = <<>>
    /\ acAnchorRect = Null
    /\ acMatchRange = Null
    /\ highlightedIndex = -1
    /\ menuPos = Null
    /\ ev = FirstEvent("Focus", domFocus)
    /\ steps = 0
    /\ budget = 2 * Len(cycle)

NextTab == \E index \in 0..(Len(blocks) - 1) : HandleTab(index)

SpecTab == InitTab /\ [][NextTab]_vars

\* ------------------------------------------------------------------------
\* The trigger logic applied to scene-heading texts: one content change of a
\* focused scene heading, its new text put together from a head, a location
\* and up to MaxSegments pieces each led by " - "
\* ------------------------------------------------------------------------

MaxSegments == 2

TextIntPark    == <<"I","N","T","."," ","P","A","R","K">>
TextIntExtPark == <<"I","N","T",".","/","E","X","T","."," ","P","A","R","K"," ","-"," ","D","A","Y">>
TextExtPark    == <<"E","X","T","."," ","P","A","R","K"," ","-"," ","N","I","G","H","T">>
TextCoffeeShop == <<"C","O","F","F","E","E"," ","S","H","O","P">>
TextPark       == <<"P","A","R","K">>

EngineHeads ==
    {<<>>, <<"I","N">>,
     <<"i","n">>,
     <<"A">>,
     <<"I","N","T",".">>,
     <<"I","N","T","."," ">>,
     <<"E","X","T","."," ">>,
     <<"I","N","T",".","/","E","X","T","."," ">>,
     <<"i","n","t","."," ">>}
EngineLocations == {<<>>, <<"C">>, <<"P">>, TextPark}
EngineSegments == {<<>>, <<"D">>, <<"D","A","Y">>, <<"B">>}

RECURSIVE EngineTails(_)
EngineTails(n) ==
    IF n = 0 THEN {<<>>}
    ELSE {t \o StrSpDashSp \o g : t \in EngineTails(n - 1), g \in EngineSegments}

EngineTexts ==
    {h \o l \o t : h \in EngineHeads, l \in EngineLocations,
                   t \in UNION {EngineTails(n) : n \in 0..MaxSegments}}

\* The documents of the content change: the scene heading that is edited,
\* alone or followed by a second block
EngineDocuments ==
    LET firsts == {Block("1", "scene_heading", c) :
                      c \in {TextEmpty, TextIntPark, TextIntExtPark}}
        seconds == {Block("2", "scene_heading", TextHeading),
                    Block("2", "action", TextExtPark)}
    IN {<<f>> : f \in firsts} \cup {<<f, g>> : f \in firsts, g \in seconds}

InitEngine ==
    /\ blocks \in EngineDocuments
    /\ domFocus = 0
    /\ focusedId = BlockAt(blocks, 0).id
    /\ shouldFocus = FALSE
    /\ acShow = FALSE
    /\ acOptions = <<>>
    /\ acAnchorRect = Null
    /\ acMatchRange = Null
    /\ highlightedIndex = -1
    /\ menuPos = Null
    /\ ev = FirstEvent("Focus", 0)
    /\ steps = 0
    /\ budget = 1

NextEngine == \E text \in EngineTexts : HandleInput(domFocus, text, DomCaretAtText)

SpecEngine == InitEngine /\ [][NextEngine]_vars

\* ------------------------------------------------------------------------
\* The editor taken by itself: its onSelect callback is called with an option
\* at any time, whatever the popup shows, between focus moves and content
\* changes
\* ------------------------------------------------------------------------

SelectValues == {StrIntSp, TextCoffeeShop}

\* onSelect={handleAutocompleteSelect} called with `value`
SelectEvent(value) ==
    /\ UserEvent
    /\ ev' = Event("Select", -1)
    /\ handleAutocompleteSelect(value)
    /\ UNCHANGED <<focusedId, acOptions, acMatchRange, highlightedIndex, domFocus>>
    /\ LayoutKept

NextSelect ==
    \/ \E index \in 0..(Len(blocks) - 1) : HandleFocus(index)
    \/ \E index \in 0..(Len(blocks) - 1), text \in InputTexts, dom \in DomReadings :
          HandleInput(index, text, dom)
    \/ \E index \in 0..(Len(blocks) - 1) : FocusTransfer(index)
    \/ \E value \in SelectValues : SelectEvent(value)

SpecSelect == Init /\ [][NextSelect]_vars

\* ------------------------------------------------------------------------
\* The anchor resolver applied to page readings: one content change that opens
\* the popup on an empty scene heading, for every combination of block
\* rectangle, line height and selection
\* ------------------------------------------------------------------------

MaxStartOffset == 1

ZeroRect == Rect(0, 0, 0, 0)
AnchorBlockRects == {ZeroRect, BlockRect, Rect(0, 0, 624, 22)}
AnchorLineHeights == {0, 28}
AnchorCarets ==
    {Rect(l, t, w, h) : l \in {0, 156, 900}, t \in {0, 138, 700},
                        w \in {0, 10}, h \in {0, 18}}
AnchorProbes == {ZeroRect, Rect(146, 138, 10, 18), Rect(900, 700, 10, 18)}
AnchorSelections ==
    {[hasRange |-> r, inside |-> FALSE, caret |-> ZeroRect, collapsed |-> TRUE,
      startOffset |-> 0, probe |-> ZeroRect] : r \in BOOLEAN}
    \cup {[hasRange |-> TRUE, inside |-> TRUE, caret |-> c, collapsed |-> k,
            startOffset |-> o, probe |-> q] :
             c \in AnchorCarets, k \in BOOLEAN, o \in 0..MaxStartOffset,
             q \in AnchorProbes}
AnchorReadings ==
    {[blockRect |-> b, cssLineHeight |-> h, sel |-> x,
      innerWidth |-> 800, innerHeight |-> 600, menu |-> Null] :
        b \in AnchorBlockRects, h \in AnchorLineHeights, x \in AnchorSelections}

TextI == <<"I">>

InitAnchor ==
    /\ blocks = <<Block("1", "scene_heading", TextEmpty)>>
    /\ domFocus = 0
    /\ focusedId = "1"
    /\ shouldFocus = FALSE
    /\ acShow = FALSE
    /\ acOptions = <<>>
    /\ acAnchorRect = Null
    /\ acMatchRange = Null
    /\ highlightedIndex = -1
    /\ menuPos = Null
    /\ ev = FirstEvent("Focus", 0)
    /\ steps = 0
    /\ budget = 1

NextAnchor == \E dom \in AnchorReadings : HandleInput(domFocus, TextI, dom)

SpecAnchor == InitAnchor /\ [][NextAnchor]_vars

\* ------------------------------------------------------------------------
\* The layout effect of the popup applied to page readings: two content
\* changes that open the popup on a scene heading, the anchor being the line
\* anchor of a block at any of several places, in a large and a small window
\* ------------------------------------------------------------------------

TextE == <<"E">>
MenuBlockRects ==
    {Rect(l, t, 624, 22) : l \in {0, 400, 795}, t \in {-30, 300, 570, 600}}
MenuWindows == {[innerWidth |-> 800, innerHeight |-> 600],
                [innerWidth |-> 200, innerHeight |-> 100]}
MenuSizes == {MenuSize(248, 90), MenuSize(300, 240)}
MenuReadings ==
    {[blockRect |-> b, cssLineHeight |-> 0, sel |-> DomNoSelection.sel,
      innerWidth |-> w.innerWidth, innerHeight |-> w.innerHeight, menu |-> m] :
        b \in MenuBlockRects, w \in MenuWindows,
        m \in {Null} \cup {Some(z) : z \in MenuSizes}}

InitMenu ==
    /\ blocks = <<Block("1", "scene_heading", TextEmpty)>>
    /\ domFocus = 0
    /\ focusedId = "1"
    /\ shouldFocus = FALSE
    /\ acShow = FALSE
    /\ acOptions = <<>>
    /\ acAnchorRect = Null
    /\ acMatchRange = Null
    /\ highlightedIndex = -1
    /\ menuPos = Null
    /\ ev = FirstEvent("Focus", 0)
    /\ steps = 0
    /\ budget = 2

NextMenu ==
    \E dom \in MenuReadings, text \in {TextEmpty, TextI, TextE} :
        HandleInput(domFocus, text, dom)

SpecMenu == InitMenu /\ [][NextMenu]_vars

\* ------------------------------------------------------------------------
\* "INT. COFFEE SHOP - DAY" and two more characters typed one at a time into
\* a document whose only block is an empty scene heading
\* ------------------------------------------------------------------------

TypedText == TextHeading \o <<" ", "X">>

\* The next character of TypedText is typed at the end of the text so far
TypeNext(dom) ==
    LET text == BlockAt(blocks, 0).content
    IN /\ Len(text) < Len(TypedText)
       /\ text = SubSeq(TypedText, 1, Len(text))
       /\ HandleInput(0, SubSeq(TypedText, 1, Len(text) + 1), dom)

InitTyping ==
    /\ blocks = <<Block("1", "scene_heading", TextEmpty)>>
    /\ domFocus = 0
    /\ focusedId = "1"
    /\ shouldFocus = FALSE
    /\ acShow = FALSE
    /\ acOptions = <<>>
    /\ acAnchorRect = Null
    /\ acMatchRange = Null
    /\ highlightedIndex = -1
    /\ menuPos = Null
    /\ ev = FirstEvent("Focus", 0)
    /\ steps = 0
    /\ budget = Len(TypedText)

NextTyping == \E dom \in MenuReadings : TypeNext(dom)

SpecTyping == InitTyping /\ [][NextTyping]_vars

\* ------------------------------------------------------------------------
\* The popup's keys: a sole scene heading whose text changes between "",
\* "I" and "E" (three, two and one option), with ArrowDown, ArrowUp, Enter
\* and Escape pressed in between
\* ------------------------------------------------------------------------

\* Number of user events in a behaviour of SpecKeys.
MaxKeys == 5

InitKeys ==
    /\ blocks = <<Block("1", "scene_heading", TextEmpty)>>
    /\ domFocus = 0
    /\ focusedId = "1"
    /\ shouldFocus = FALSE
    /\ acShow = FALSE
    /\ acOptions = <<>>
    /\ acAnchorRect = Null
    /\ acMatchRange = Null
    /\ highlightedIndex = -1
    /\ menuPos = Null
    /\ ev = FirstEvent("Focus", 0)
    /\ steps = 0
    /\ budget = MaxKeys

NextKeys ==
    \/ \E text \in {TextEmpty, TextI, TextE}, dom \in DomReadings :
          HandleInput(domFocus, text, dom)
    \/ PopupArrowDown
    \/ PopupArrowUp
    \/ PopupEnter
    \/ PopupEscape
    \/ FocusPass

SpecKeys == InitKeys /\ [][NextKeys]_vars

\* ------------------------------------------------------------------------
\* Properties
\* ------------------------------------------------------------------------

\* The step is the handling of a key press of the given kinds
StepIs(kinds) == ev'.kind \in kinds
BackspaceKinds == {"BackspaceRemove", "BackspaceDefault"}

\* Every block keeps its position, id and type over the step
SameIdsAndTypes ==
    /\ Len(blocks') = Len(blocks)
    /\ \A k \in 1..Len(blocks) :
          blocks'[k].id = blocks[k].id /\ blocks'[k].type = blocks[k].type

\* C1: the document always holds at least one block; Backspace on an empty
\* block never removes the only remaining block.
C1_DocumentNeverEmpty == Len(blocks) >= 1

\* A Backspace press on the empty only block has been handled
C1_Witness ==
    /\ ev.kind = "BackspaceDefault"
    /\ ev.index = 0
    /\ Len(blocks) = 1
    /\ blocks[1].content = <<>>

\* C2: the ids of the blocks are pairwise distinct in every reachable state.
C2_IdsPairwiseDistinct ==
    \A i, j \in 1..Len(blocks) : i # j => blocks[i].id # blocks[j].id

\* The table of the Enter mapping
C3_Mapping ==
    [t \in BlockTypes |->
        CASE t = "scene_heading" -> "action"
          [] t = "character" -> "dialogue"
          [] t = "dialogue" -> "character"
          [] t = "parenthetical" -> "dialogue"
          [] t = "action" -> "action"
          [] t = "transition" -> "action"]

\* C3: Enter with the popup closed on a block of type T inserts a block with
\* empty content whose type is the table's value for T.
C3_EnterNewBlock ==
    [][(StepIs({"Enter"}) /\ ~acShow) =>
         LET index == ev'.index
             inserted == BlockAt(blocks', index + 1)
         IN /\ Len(blocks') = Len(blocks) + 1
            /\ inserted.content = <<>>
            /\ inserted.type = C3_Mapping[BlockAt(blocks, index).type]]_vars

\* Enter has been handled on a transition block
C3_Witness ==
    /\ ev.kind = "Enter"
    /\ Len(blocks) > ev.index + 1
    /\ BlockAt(blocks, ev.index).type = "transition"
    /\ BlockAt(blocks, ev.index + 1).type = "action"
    /\ BlockAt(blocks, ev.index + 1).content = <<>>

\* C4: Enter with the popup closed on the block at index i inserts exactly one
\* block, at index i+1; the blocks up to i and the blocks after i are the old
\* ones, unchanged and in their order.
C4_EnterFrame ==
    [][(StepIs({"Enter"}) /\ ~acShow) =>
         LET index == ev'.index
         IN /\ Len(blocks') = Len(blocks) + 1
            /\ \A k \in 1..(index + 1) : blocks'[k] = blocks[k]
            /\ \A k \in (index + 2)..Len(blocks) : blocks'[k + 1] = blocks[k]]_vars

\* Enter has been handled on the first of two blocks
C4_Witness ==
    /\ ev.kind = "Enter"
    /\ ev.index = 0
    /\ Len(blocks) = 3
    /\ blocks[1].content = TextHeading
    /\ blocks[2].content = <<>>
    /\ blocks[3].content = TextWriter

\* C5: while the popup is open an Enter press goes to the popup alone and
\* inserts no block: count, order, ids and types of the blocks and the focused
\* id are unchanged, and the document changes only by the selection of the
\* highlighted option.
C5_EnterWhileOpen ==
    [][(StepIs({"Enter", "PopupEnter"}) /\ acShow) =>
         /\ ev'.kind = "PopupEnter"
         /\ SameIdsAndTypes
         /\ focusedId' = focusedId
         /\ (blocks' # blocks =>
               highlightedIndex \in 0..(Len(acOptions) - 1))]_vars

\* Enter has been pressed with the popup open and an option highlighted
C5_Witness ==
    /\ ev.kind = "PopupEnter"
    /\ ~acShow
    /\ shouldFocus
    /\ highlightedIndex >= 0

\* The ring of the Tab key
C6_Ring ==
    [t \in BlockTypes |->
        CASE t = "scene_heading" -> "action"
          [] t = "action" -> "character"
          [] t = "character" -> "parenthetical"
          [] t = "parenthetical" -> "dialogue"
          [] t = "dialogue" -> "transition"
          [] t = "transition" -> "scene_heading"]

\* C6: each Tab press moves the block's type to its successor in the ring, and
\* six consecutive presses on one block bring back the type it started with.
C6_TabRing ==
    /\ [][StepIs({"Tab"}) =>
            BlockAt(blocks', ev'.index).type =
               C6_Ring[BlockAt(blocks, ev'.index).type]]_vars
    /\ []((ev.kind = "Tab" /\ ev.run % 6 = 0) =>
            BlockAt(blocks, ev.index).type = ev.origin)

\* Six consecutive Tab presses have been handled on a dialogue block
C6_Witness ==
    /\ ev.kind = "Tab"
    /\ ev.run = 6
    /\ ev.origin = "dialogue"
    /\ BlockAt(blocks, ev.index).type = "dialogue"

\* C7: a Tab press leaves the block count and order, every id and content, the
\* types of the other blocks and the focused id as they were.
C7_TabFrame ==
    [][StepIs({"Tab"}) =>
         /\ Len(blocks') = Len(blocks)
         /\ \A k \in 1..Len(blocks) :
               /\ blocks'[k].id = blocks[k].id
               /\ blocks'[k].content = blocks[k].content
               /\ (k # ev'.index + 1 => blocks'[k].type = blocks[k].type)
         /\ focusedId' = focusedId]_vars

\* Tab has been handled on the second block of App's document
C7_Witness ==
    /\ ev.kind = "Tab"
    /\ ev.index = 1
    /\ Len(blocks) = 2
    /\ blocks[1].type = "scene_heading"
    /\ blocks[1].content = TextHeading
    /\ blocks[2].type = "character"
    /\ blocks[2].content = TextWriter
    /\ focusedId = blocks[2].id

\* C8: Backspace on an empty block at index i > 0 removes exactly that block
\* and requests focus on the block that was at index i-1, the pending-focus
\* flag set.
C8_BackspaceRemovesBlock ==
    [][(/\ StepIs(BackspaceKinds)
        /\ BlockAt(blocks, ev'.index).content = <<>>
        /\ ev'.index > 0) =>
         LET index == ev'.index
         IN /\ Len(blocks') = Len(blocks) - 1
            /\ \A k \in 1..index : blocks'[k] = blocks[k]
            /\ \A k \in (index + 2)..Len(blocks) : blocks'[k - 1] = blocks[k]
            /\ focusedId' = BlockAt(blocks, index - 1).id
            /\ shouldFocus']_vars

\* Backspace has removed the empty block after the scene heading of App
C8_Witness ==
    /\ ev.kind = "BackspaceRemove"
    /\ ev.index = 1
    /\ Len(blocks) = 2
    /\ blocks[1].content = TextHeading
    /\ blocks[2].content = TextWriter
    /\ focusedId = blocks[1].id
    /\ shouldFocus

\* C9: Backspace on a block with content, or on the first block, removes no
\* block and leaves the focused id and the pending-focus flag as they were.
C9_BackspaceNotIntercepted ==
    [][(/\ StepIs(BackspaceKinds)
        /\ (BlockAt(blocks, ev'.index).content # <<>> \/ ev'.index = 0)) =>
         /\ blocks' = blocks
         /\ focusedId' = focusedId
         /\ shouldFocus' = shouldFocus]_vars

\* Backspace has been handled on the second block of App's document, which
\* has content
C9_Witness ==
    /\ ev.kind = "BackspaceDefault"
    /\ ev.index = 1
    /\ Len(blocks) = 2
    /\ blocks[2].content = TextWriter

\* C10: a content change in a block whose type is not scene_heading leaves the
\* popup closed, whatever the text and the popup state before.
C10_InputClosesPopup ==
    [][(StepIs({"Input"}) /\ BlockAt(blocks', ev'.index).type # "scene_heading") =>
         ~acShow']_vars

\* The content of a block that is no scene heading has changed after the popup
\* was opened for it
C10_Witness ==
    /\ ev.kind = "Input"
    /\ BlockAt(blocks, ev.index).type # "scene_heading"
    /\ ~acShow
    /\ acOptions # <<>>
    /\ acMatchRange # Null

\* The members of a sequence
Range(seq) == {seq[i] : i \in DOMAIN seq}

\* The last event was the content change of a scene heading
SceneHeadingInput ==
    /\ ev.kind = "Input"
    /\ BlockAt(blocks, ev.index).type = "scene_heading"

\* The text the last content change left in its block, and its upper case
InputText == BlockAt(blocks, ev.index).content
InputUpper == ToUpperCase(InputText)

\* C11: right after every content change the popup is open exactly when the
\* trigger logic, run on the block's type and new text, yields at least one
\* option; and when it is open, the published options and match range are the
\* options and the span of the trigger logic.
C11_PopupFollowsEngine ==
    [][StepIs({"Input"}) =>
        LET block == BlockAt(blocks', ev'.index)
            m == MatchedOptions(block.content, ev'.known)
            open == IsTriggerType(block.type) /\ Len(m.options) > 0
        IN /\ acShow' = open
           /\ open => /\ acOptions' = m.options
                      /\ acMatchRange' = Some([start |-> m.start, end |-> m.end])]_vars

C11_Witness ==
    /\ SceneHeadingInput
    /\ InputText = TextIntC
    /\ acShow
    /\ acOptions = <<TextCoffeeShop>>
    /\ acMatchRange = Some([start |-> 5, end |-> 6])

\* C12 (as amended): in the prefix stage (upper-cased text shorter than 5
\* characters and without '.') the options are the members of
\* {"INT. ", "EXT. ", "INT./EXT. "} that start with the upper-cased text, the
\* popup is open exactly when there is one, and the span is [0, end of text]
C12_PrefixRule ==
    (SceneHeadingInput /\ Len(InputUpper) < 5 /\ ~Includes(InputUpper, StrDot)) =>
        LET expected == {p \in {StrIntSp, StrExtSp, StrIntExtSp} :
                            StartsWith(p, InputUpper)}
        IN /\ acShow <=> expected # {}
           /\ acShow => /\ Range(acOptions) = expected
                        /\ Len(acOptions) = Cardinality(expected)
                        /\ acMatchRange = Some([start |-> 0, end |-> Len(InputText)])

\* C12 (as amended): the prefix rule, and for the text "IN" the options are
\* exactly "INT. " and "INT./EXT. "
C12_PrefixStage ==
    /\ C12_PrefixRule
    /\ (SceneHeadingInput /\ InputText = <<"I","N">>) =>
            acShow /\ Range(acOptions) = {StrIntSp, StrIntExtSp}

\* C12 (as stated): the prefix rule, and for the text "IN" the options are
\* exactly "INT. "
C12_OnlyIntForIN ==
    /\ C12_PrefixRule
    /\ (SceneHeadingInput /\ InputText = <<"I","N">>) =>
            acShow /\ Range(acOptions) = {StrIntSp}

C12_Witness ==
    /\ SceneHeadingInput
    /\ InputText = <<"I","N">>
    /\ acShow
    /\ acOptions = <<StrIntSp, StrIntExtSp>>
    /\ acMatchRange = Some([start |-> 0, end |-> 2])

\* C13: in the time stage, for every scene-heading text that holds " - ", also
\* one that holds it twice or more, the time prefix is the text after the last
\* " - ", the options are the times that start with it, and the span runs from
\* right after the last " - " to the end of the text.
C13_TimeAfterLastSeparator ==
    (SceneHeadingInput /\ ~(Len(InputUpper) < 5 /\ ~Includes(InputUpper, StrDot))
        /\ Includes(InputUpper, StrSpDashSp)) =>
        LET last == LastIndexOf(InputUpper, StrSpDashSp)
            timePrefix == SubstringFrom(InputUpper, last + 3)
            expected == {t \in Range(times) : StartsWith(t, timePrefix)}
        IN /\ acShow <=> expected # {}
           /\ acShow => /\ Range(acOptions) = expected
                        /\ acMatchRange =
                              Some([start |-> last + 3, end |-> Len(InputText)])

\* The one of "INT./EXT. ", "INT. " and "EXT. " that the upper-cased text u
\* starts with (<<>> when it starts with none)
WholePrefix(u) ==
    IF StartsWith(u, StrIntExtSp) THEN StrIntExtSp
    ELSE IF StartsWith(u, StrIntSp) THEN StrIntSp
    ELSE IF StartsWith(u, StrExtSp) THEN StrExtSp
    ELSE <<>>

\* The last content change of a scene heading reached the location stage
LocationStageInput ==
    /\ SceneHeadingInput
    /\ ~(Len(InputUpper) < 5 /\ ~Includes(InputUpper, StrDot))
    /\ ~Includes(InputUpper, StrSpDashSp)
    /\ WholePrefix(InputUpper) # <<>>

\* C14: in the location stage (the text starts with "INT. ", "EXT. " or
\* "INT./EXT. " in any letter case and holds no " - ") the remainder is the
\* text after the whole prefix; when it is not empty the options are the known
\* locations that start with it and differ from it, and the span starts right
\* after the prefix.
C14_RemainderAfterWholePrefix ==
    LocationStageInput =>
        LET start == Len(WholePrefix(InputUpper))
            remainder == SubstringFrom(InputUpper, start)
            expected == SelectSeq(ev.known,
                           LAMBDA loc : StartsWith(loc, remainder) /\ loc # remainder)
        IN remainder # <<>> =>
              /\ acShow <=> expected # <<>>
              /\ acShow => /\ acOptions = expected
                           /\ acMatchRange =
                                 Some([start |-> start, end |-> Len(InputText)])

\* C15 (as amended): given the text "INT. " and the known locations
\* {COFFEE SHOP}, the trigger logic yields no option and the popup is closed,
\* the remainder being empty; given "INT. C" the options are exactly
\* {COFFEE SHOP}.
C15_EmptyRemainderNoOptions ==
    (SceneHeadingInput /\ ev.known = <<TextCoffeeShop>>) =>
        /\ InputText = StrIntSp => ~acShow
        /\ InputText = TextIntC => acShow /\ acOptions = <<TextCoffeeShop>>

\* C15 (as stated): given the text "INT. " and the known locations
\* {COFFEE SHOP}, the options are exactly {COFFEE SHOP}
C15_IntOffersCoffeeShop ==
    (SceneHeadingInput /\ ev.known = <<TextCoffeeShop>> /\ InputText = StrIntSp) =>
        acShow /\ acOptions = <<TextCoffeeShop>>

C15_Witness ==
    /\ SceneHeadingInput
    /\ ev.known = <<TextCoffeeShop>>
    /\ InputText = StrIntSp
    /\ ~acShow

\* C16: the stages are tried in the order prefix, time, location, and only
\* the first one whose condition holds is used: the options of an open popup
\* are those of that stage, and when that stage yields none the popup is
\* closed, whatever a later stage would have yielded.
C16_FirstStageOnly ==
    SceneHeadingInput =>
        LET inPrefix == Len(InputUpper) < 5 /\ ~Includes(InputUpper, StrDot)
            inTime == Includes(InputUpper, StrSpDashSp)
        IN /\ inPrefix =>
                /\ acShow => Range(acOptions) \subseteq {StrIntSp, StrExtSp, StrIntExtSp}
                /\ (\A p \in {StrIntSp, StrExtSp, StrIntExtSp} :
                        ~StartsWith(p, InputUpper)) => ~acShow
           /\ (~inPrefix /\ inTime) =>
                /\ acShow => Range(acOptions) \subseteq Range(times)
                /\ (\A t \in Range(times) :
                        ~StartsWith(t, TimePrefix(InputUpper))) => ~acShow
           /\ (~inPrefix /\ ~inTime) =>
                /\ acShow => Range(acOptions) \subseteq Range(ev.known)
                /\ WholePrefix(InputUpper) = <<>> => ~acShow

\* A text of the prefix stage that no prefix starts with, and that the time
\* stage would have completed
C16_Witness ==
    /\ SceneHeadingInput
    /\ InputText = <<"A"," ","-"," ">>
    /\ TimeOptions(TimePrefix(InputUpper)) # <<>>
    /\ ~acShow

\* The first n characters of a text (all of it when it is shorter)
FirstChars(text, n) == SubSeq(text, 1, IF n < Len(text) THEN n ELSE Len(text))

\* The step hands `value` to handleAutocompleteSelect: a click on an option,
\* or Enter on the highlighted one
SelectsOption(value) ==
    \/ /\ StepIs({"PopupItemClick"})
       /\ value = acOptions[ev'.index + 1]
    \/ /\ StepIs({"PopupEnter"})
       /\ highlightedIndex \in 0..(Len(acOptions) - 1)
       /\ value = acOptions[highlightedIndex + 1]

\* C17: a selection made while a block is focused and a match range exists
\* sets the content of that block to its first span.start characters followed
\* by the option, closes the popup and sets the pending-focus flag; every
\* other block, and the type and id of the block, stay as they were.
C17_SelectReplacesFromStart ==
    [][\A value \in Range(acOptions) :
          (/\ SelectsOption(value)
           /\ focusedId # None
           /\ acMatchRange # Null
           /\ \E k \in DOMAIN blocks : blocks[k].id = focusedId) =>
             LET k == CHOOSE k \in DOMAIN blocks :
                         /\ blocks[k].id = focusedId
                         /\ \A j \in 1..(k - 1) : blocks[j].id # focusedId
                 start == ValueOf(acMatchRange).start
             IN /\ blocks' = [blocks EXCEPT ![k].content =
                                 FirstChars(blocks[k].content, start) \o value]
                /\ ~acShow'
                /\ shouldFocus']_vars

TextIntCoffeeShop == StrIntSp \o TextCoffeeShop

\* "INT. C" completed to "INT. COFFEE SHOP" by a click on the option
C17_Witness ==
    /\ ev.kind = "PopupItemClick"
    /\ blocks[1].content = TextIntCoffeeShop
    /\ blocks[1].type = "scene_heading"
    /\ ~acShow
    /\ shouldFocus

\* C18: the match range is transient: once an option has been selected or
\* the popup has been closed, no match range is retained, so that a later
\* selection cannot use a range computed before that selection or close.
C18_NoRangeAfterSelectOrClose ==
    (ev.kind \in {"PopupItemClick", "PopupEnter", "PopupEscape"} /\ ~acShow) =>
        acMatchRange = Null

\* C19: knownLocations is a projection of the current document: whenever a
\* content change reaches the location stage and the trigger logic reads it,
\* it is the set derived from the scene headings of the document as they are
\* after that change.
C19_KnownLocationsCurrent ==
    (LocationStageInput /\ SubstringFrom(InputUpper, Len(WholePrefix(InputUpper))) # <<>>)
        => ev.known = KnownLocations(blocks)

\* The one of "INT./EXT.", "INT." and "EXT." that the upper-cased text u
\* begins with (<<>> when it begins with none)
WholeToken(u) ==
    IF StartsWith(u, StrIntExt) THEN StrIntExt
    ELSE IF StartsWith(u, StrInt) THEN StrInt
    ELSE IF StartsWith(u, StrExt) THEN StrExt
    ELSE <<>>

\* The text between the whole token and the first '-', upper-cased and trimmed
LocationBetween(content) ==
    LET u == ToUpperCase(content)
        rest == SubstringFrom(u, Len(WholeToken(u)))
        cut == IndexOf(rest, StrDash)
    IN Trim(IF cut < 0 THEN rest ELSE Substring(rest, 0, cut))

\* C20: every scene heading whose content begins with INT., EXT. or
\* INT./EXT. contributes to knownLocations the text between that whole token
\* and the first '-', upper-cased and trimmed, unless that text is empty; and
\* knownLocations holds nothing but what the scene headings contribute.
C20_ContributedLocations ==
    LET known == Range(KnownLocations(blocks))
        headings == {k \in DOMAIN blocks : blocks[k].type = "scene_heading"}
        tokened(k) == WholeToken(ToUpperCase(blocks[k].content)) # <<>>
    IN /\ \A k \in headings :
            (tokened(k) /\ LocationBetween(blocks[k].content) # <<>>) =>
                LocationBetween(blocks[k].content) \in known
       /\ \A loc \in known : \E k \in headings :
            tokened(k) => loc = LocationBetween(blocks[k].content)

\* The last event was a content change that opened the popup
OpeningInput == ev.kind = "Input" /\ ev.dom # Null

\* C21: for every cursor rectangle (zero-area and all-zero ones, and no
\* selection at all, included) and every block rectangle, the anchor that
\* getAnchorRect returns is not all-zero: it is either the accepted cursor
\* rectangle, of non-zero width or height, or the line anchor at the block's
\* top-left corner, of width 1 and positive height.
C21_AnchorNeverAllZero ==
    OpeningInput =>
        LET d == ValueOf(ev.dom)
            r == ValueOf(acAnchorRect)
        IN /\ r # ZeroRect
           /\ \/ /\ d.sel.hasRange
                 /\ r \in {d.sel.caret, d.sel.probe}
                 /\ r.width # 0 \/ r.height # 0
              \/ /\ r.width = 1
                 /\ r.height > 0
                 /\ r.left = d.blockRect.left
                 /\ r.top = d.blockRect.top

\* An all-zero cursor rectangle in a block whose rectangle is all-zero
C21_Witness ==
    /\ OpeningInput
    /\ ValueOf(ev.dom).sel.inside
    /\ ValueOf(ev.dom).sel.caret = ZeroRect
    /\ ValueOf(ev.dom).blockRect = ZeroRect
    /\ acAnchorRect = Some(Rect(0, 0, 1, DefaultLineHeight))

\* C22: for every anchor and window in which the popup, of the width and
\* height the layout effect works with, fits between the insets, the position
\* the effect computes keeps the whole popup at least 10 away from all four
\* edges of the window.
C22_PopupWithinInsets ==
    (OpeningInput /\ menuPos # Null) =>
        LET d == ValueOf(ev.dom)
            pos == ValueOf(menuPos)
            estimated == Len(acOptions) * 40 + 12
            width == IF d.menu = Null THEN 260 ELSE ValueOf(d.menu).offsetWidth
            height == IF d.menu # Null THEN ValueOf(d.menu).offsetHeight
                      ELSE IF estimated < 240 THEN estimated ELSE 240
        IN (width <= d.innerWidth - 20 /\ height <= d.innerHeight - 20) =>
              /\ 10 <= pos.left
              /\ pos.left + width <= d.innerWidth - 10
              /\ 10 <= pos.top
              /\ pos.top + height <= d.innerHeight - 10

\* The index of the block that the pending focus request asks for, read in
\* the state the request has left: the block Enter inserted, the block before
\* the one Backspace removed, the block a selection completed
RequestedIndex ==
    IF ev.kind = "Enter" THEN ev.index + 1
    ELSE IF ev.kind = "BackspaceRemove" THEN ev.index - 1
    ELSE FindIndex(blocks, focusedId)

\* C23: every focus request (of Enter inserting a block, of Backspace
\* removing one, of a selection) is fulfilled in the end: the pending-focus
\* flag never stays set for ever, and the pass that clears it gives the input
\* focus to the requested block.
C23_FocusRequestFulfilled ==
    /\ shouldFocus ~> ~shouldFocus
    /\ [][StepIs({"FocusTransfer"}) =>
            /\ domFocus' = RequestedIndex
            /\ ~shouldFocus']_vars

\* C24: a selection that arrives when no block is focused, when there is no
\* match range, or when no block of the document has the focused id, does
\* nothing: the document, the popup state, the focused id and the
\* pending-focus flag stay as they were.
C24_SelectNoOp ==
    [][(/\ StepIs({"Select"})
        /\ \/ focusedId = None
           \/ acMatchRange = Null
           \/ \A k \in DOMAIN blocks : blocks[k].id # focusedId) =>
          UNCHANGED <<blocks, acShow, acOptions, acAnchorRect, acMatchRange,
                      menuPos, focusedId, shouldFocus>>]_vars

\* A selection has arrived while a block was focused and no match range
\* existed
C24_Witness ==
    /\ ev.kind = "Select"
    /\ focusedId # None
    /\ acMatchRange = Null
    /\ ~shouldFocus

\* The options of the stage that the scene-heading text falls in, for a text
\* with at most one " - ": the prefixes that start with it, the times that
\* start with what follows " - ", the locations of `known` that start with
\* what follows the prefix and differ from it; none for any other text
StageOptions(text, known) ==
    LET u == ToUpperCase(text)
        cut == IndexOf(u, StrSpDashSp)
        remainder == SubstringFrom(u, Len(WholePrefix(u)))
    IN IF Len(u) < 5 /\ ~Includes(u, StrDot)
       THEN {p \in {StrIntSp, StrExtSp, StrIntExtSp} : StartsWith(p, u)}
       ELSE IF cut >= 0
       THEN {t \in Range(times) : StartsWith(t, SubstringFrom(u, cut + 3))}
       ELSE IF WholePrefix(u) # <<>> /\ remainder # <<>>
       THEN {loc \in known : StartsWith(loc, remainder) /\ loc # remainder}
       ELSE {}

\* C25: while "INT. COFFEE SHOP - DAY" is typed one character at a time into
\* the only block, an empty scene heading, the popup is open after "I"; at
\* each step its options are those of the stage the text so far falls in;
\* it is closed at every step where the text falls in no stage or the stage
\* has no option, and once further text follows the completed heading.
C25_TypingTheHeading ==
    SceneHeadingInput =>
        LET expected == StageOptions(InputText, {LocationBetween(InputText)})
        IN /\ InputText = TextI => acShow
           /\ acShow <=> expected # {}
           /\ acShow => Range(acOptions) = expected
           /\ Len(InputText) > Len(TextHeading) => ~acShow

\* The whole text has been typed and the popup is closed
C25_Witness ==
    /\ SceneHeadingInput
    /\ InputText = TypedText
    /\ steps = Len(TypedText)
    /\ ~acShow
    /\ acOptions = <<times[1]>>

\* C26: whenever the popup is open, the focused block is a scene heading,
\* also after Tab or a change of focus while the popup is open.
C26_OpenOnlyOnSceneHeading ==
    acShow =>
        \E index \in 0..(Len(blocks) - 1) :
            /\ BlockAt(blocks, index).id = focusedId
            /\ BlockAt(blocks, index).type = "scene_heading"

\* C27: a selection modifies no block but the one whose content change
\* published the pending options and match range, also after Backspace
\* removed that block or the focus moved while the popup was open.
C27_SelectModifiesOpener ==
    [][StepIs({"PopupEnter", "PopupItemClick"}) =>
          \A index \in 0..(Len(blocks) - 1) :
              BlockAt(blocks', index) # BlockAt(blocks, index) =>
                  BlockAt(blocks, index).id = ev.opener]_vars

\* C28: the popup goes from closed to open only in a content-change event.
C28_OpensOnlyOnInput ==
    [][(~acShow /\ acShow') => StepIs({"Input"})]_vars

\* The first event is a content change that opens the popup
C28_Witness ==
    /\ ev.kind = "Input"
    /\ steps = 2
    /\ acShow

C30_AnchorWhileOpen ==
    /\ [](acShow => acAnchorRect # Null)
    /\ [][(acAnchorRect # Null /\ acAnchorRect' = Null) => ~acShow']_vars

\* A selection has cleared the anchor and closed the popup
C30_Witness ==
    /\ ev.kind \in {"PopupEnter", "PopupItemClick"}
    /\ acAnchorRect = Null
    /\ ~acShow
    /\ Len(acOptions) > 0

\* The focused id is none or the id of a block of the document
FocusedInDocument ==
    focusedId = None \/ \E k \in 1..Len(blocks) : blocks[k].id = focusedId

\* C31: in every reachable state the focused id is none or the id of a block
\* of the document; after Backspace has removed a block, the focused id is
\* the id of the block that preceded it, and is not the removed block's id.
C31_FocusedIdInDocument ==
    /\ []FocusedInDocument
    /\ [][StepIs({"BackspaceRemove"}) =>
            /\ focusedId' = BlockAt(blocks', ev'.index - 1).id
            /\ focusedId' # BlockAt(blocks, ev'.index).id]_vars

\* C32: the rule engine offers no completion without effect: after a content
\* change that leaves an upper-case text in a scene heading, selecting any of
\* the offered options would change the block's content (a text that ends in
\* a complete time such as " - DAY" is not offered that time).
C32_NoNoOpCompletion ==
    (SceneHeadingInput /\ acShow /\ InputText = InputUpper) =>
        \A k \in 1..Len(acOptions) :
            SelectedText(InputText, ValueOf(acMatchRange), acOptions[k]) # InputText

\* C33: while the popup is open with n >= 1 options, ArrowDown moves the
\* highlight to the next option and goes from the last option, or from no
\* highlighted option, to the first; ArrowUp moves it to the previous option
\* and goes from the first option, or from no highlighted option, to the
\* last; Enter with no option highlighted selects nothing and leaves the
\* document unchanged; Escape closes the popup and leaves the document
\* unchanged. An option is highlighted when highlightedIndex is its position.
C33_PopupKeys ==
    [][LET n == Len(acOptions)
           h == highlightedIndex
       IN /\ StepIs({"PopupArrowDown", "PopupArrowUp", "PopupEnter", "PopupEscape"}) =>
                acShow /\ n >= 1
          /\ StepIs({"PopupArrowDown"}) =>
                /\ highlightedIndex' = IF h \in 0..(n - 2) THEN h + 1 ELSE 0
                /\ UNCHANGED <<blocks, acShow, acOptions>>
          /\ StepIs({"PopupArrowUp"}) =>
                /\ highlightedIndex' = IF h \in 1..(n - 1) THEN h - 1 ELSE n - 1
                /\ UNCHANGED <<blocks, acShow, acOptions>>
          /\ (StepIs({"PopupEnter"}) /\ h \notin 0..(n - 1)) =>
                UNCHANGED <<blocks, acShow, acOptions, acMatchRange,
                            acAnchorRect, shouldFocus, focusedId>>
          /\ StepIs({"PopupEscape"}) =>
                /\ ~acShow'
                /\ UNCHANGED blocks]_vars

====
